---------------------------- MODULE Spec2Model ----------------------------
(***************************************************************************)
(* RAS Room Manager (ras-room-mgr.py): the RASRoomManager facade over a    *)
(* REST backend (list, create) and a direct sqlite3 store path (delete).   *)
(*                                                                         *)
(* A room name is a sequence of one-character strings.  The store is the   *)
(* chatRoom table of /usr/local/ras/oscar.sqlite, a set of rows; the chat  *)
(* server answers its REST requests from the same table.  Every invocation *)
(* records the I/O it performs (http, fs, procs), so that "before any I/O" *)
(* and "never invoked" are statements about these traces.  The regression  *)
(* driver (test.py) runs the tool step by step and counts its tests.       *)
(***************************************************************************)
EXTENDS Integers, Sequences, FiniteSets, TLC

\* Longest room name the model draws.
MaxLen == 1

\* Most rows the chatRoom table holds in the model.
MaxRows == 2

\* An ordinary character, the single quote, and a whitespace character.
Chars == {"a", "'", " "}

Names == UNION {[1..n -> Chars] : n \in 0..MaxLen}

Category == {"public", "private"}

Rows == [name : Names, type : Category]

-----------------------------------------------------------------------------
(* Pure helpers of the facade.                                             *)

\* The whitespace characters that occur: the blank of a name, the newline that
\* ends the store tool's output.
IsSpace(c) == c \in {" ", "\n"}

\* str.strip(): leading and trailing whitespace removed.
RECURSIVE LStrip(_)
LStrip(s) ==
    IF s = <<>> THEN <<>>
    ELSE IF IsSpace(Head(s)) THEN LStrip(Tail(s)) ELSE s

RECURSIVE RStrip(_)
RStrip(s) ==
    IF s = <<>> THEN <<>>
    ELSE IF IsSpace(s[Len(s)]) THEN RStrip(SubSeq(s, 1, Len(s) - 1)) ELSE s

Strip(s) == RStrip(LStrip(s))

\* A mutant of _validate_room_name: the whitespace test is missing.
ValidateRoomNameNoStrip(room_name) == room_name # <<>>

\* _validate_room_name: "if not room_name" then "if not room_name.strip()".
ValidateRoomName(room_name) ==
    IF room_name = <<>> THEN FALSE
    ELSE IF Strip(room_name) = <<>> THEN FALSE
    ELSE TRUE

\* A mutant of the escaping: the name is interpolated as it is.
EscapeNone(name) == name

\* A mutant of the escaping: quotes are removed, not doubled.
RECURSIVE EscapeStrip(_)
EscapeStrip(name) ==
    IF name = <<>> THEN <<>>
    ELSE (IF Head(name) = "'" THEN <<>> ELSE <<Head(name)>>)
         \o EscapeStrip(Tail(name))

\* chat_room.name.replace("'", "''")
RECURSIVE Escape(_)
Escape(name) ==
    IF name = <<>> THEN <<>>
    ELSE (IF Head(name) = "'" THEN <<"'", "'">> ELSE <<Head(name)>>)
         \o Escape(Tail(name))

\* The statement texts: a leading keyword token, then the characters of the
\* quoted literal.
DeleteVerb == "DELETE FROM chatRoom WHERE name = "
CountVerb == "SELECT COUNT(*) FROM chatRoom WHERE name = "

DeleteSql(name) == <<DeleteVerb, "'">> \o Escape(name) \o <<"'">>
CountSql(name) == <<CountVerb, "'">> \o Escape(name) \o <<"'">>

-----------------------------------------------------------------------------
(* The store tool: /usr/bin/sqlite3 <file> <statement>.                    *)

Digits == <<"0", "1", "2", "3", "4", "5", "6", "7", "8", "9">>

\* Decimal text of a natural number, as sqlite3 prints a count.
RECURSIVE IntToStr(_)
IntToStr(n) ==
    IF n < 10 THEN <<Digits[n + 1]>>
    ELSE IntToStr(n \div 10) \o <<Digits[(n % 10) + 1]>>

IsDigit(c) == \E i \in 1..10 : Digits[i] = c

DigitVal(c) == (CHOOSE i \in 1..10 : Digits[i] = c) - 1

RECURSIVE DigitsVal(_, _)
DigitsVal(s, acc) ==
    IF s = <<>> THEN acc ELSE DigitsVal(Tail(s), 10 * acc + DigitVal(Head(s)))

\* int(check_result.stdout.strip()): ok is FALSE where int() raises ValueError.
ParseInt(out) ==
    LET t == Strip(out)
    IN  IF t # <<>> /\ \A i \in 1..Len(t) : IsDigit(t[i])
        THEN [ok |-> TRUE, val |-> DigitsVal(t, 0)]
        ELSE [ok |-> FALSE, val |-> 0]

\* The quoted literal s of a statement, read as sqlite reads it: it opens with
\* a quote, a doubled quote inside stands for one quote, a single quote closes
\* it, and only whitespace may follow.  ok is FALSE for a syntax error.
RECURSIVE ScanLiteral(_, _, _)
ScanLiteral(s, i, acc) ==
    IF i > Len(s) THEN [ok |-> FALSE, value |-> acc]
    ELSE IF s[i] = "'"
    THEN IF i + 1 <= Len(s) /\ s[i + 1] = "'"
         THEN ScanLiteral(s, i + 2, Append(acc, "'"))
         ELSE [ok |-> \A j \in (i + 1)..Len(s) : IsSpace(s[j]), value |-> acc]
    ELSE ScanLiteral(s, i + 1, Append(acc, s[i]))

ParseLiteral(s) ==
    IF s = <<>> \/ Head(s) # "'" THEN [ok |-> FALSE, value |-> <<>>]
    ELSE ScanLiteral(s, 2, <<>>)

\* One run of the tool on statement sql against table st: its exit status,
\* its stdout and the table it leaves.  A statement is atomic: one that
\* fails changes nothing.  The comparison name = '...' is exact.
Sqlite(sql, st) ==
    LET lit == ParseLiteral(Tail(sql))
    IN  IF ~lit.ok
        THEN [rc |-> 1, out |-> <<>>, store |-> st]
        ELSE IF Head(sql) = DeleteVerb
        THEN [rc |-> 0, out |-> <<>>,
              store |-> {r \in st : r.name # lit.value}]
        ELSE [rc |-> 0,
              out |-> IntToStr(Cardinality({r \in st : r.name = lit.value}))
                      \o <<"\n">>,
              store |-> st]

-----------------------------------------------------------------------------
(* The chat server behind the REST endpoint {base_url}/chat/room/{type}.   *)

\* The sets of at most k elements of S.
RECURSIVE SubsetsUpTo(_, _)
SubsetsUpTo(S, k) ==
    IF k = 0 THEN {{}}
    ELSE LET smaller == SubsetsUpTo(S, k - 1)
         IN  smaller \cup {p \cup {x} : p \in smaller, x \in S}

\* The orders in which the elements of S can be listed.
Orderings(S) ==
    {q \in [1..Cardinality(S) -> S] :
        \A i, j \in 1..Cardinality(S) : i # j => q[i] # q[j]}

\* What requests.post(endpoint, json={"name": name}) can meet.  exc names the
\* exception raised ("none": a response came back), status the response's
\* status code, store the table the server leaves.  The server creates the
\* room exactly when it answers 201, and answers 409 when the room exists; it
\* may also answer 400, 200 or 500, be unreachable, or time out.
PostReplies(st, room_type, name) ==
    LET row == [name |-> name, type |-> room_type]
    IN  (IF row \in st
         THEN {[exc |-> "none", status |-> 409, store |-> st]}
         ELSE IF Cardinality(st) < MaxRows
         THEN {[exc |-> "none", status |-> 201, store |-> st \cup {row}]}
         ELSE {})
        \cup {[exc |-> "none", status |-> c, store |-> st] : c \in {200, 400, 500}}
        \cup {[exc |-> e, status |-> 0, store |-> st] :
                 e \in {"ConnectionError", "Timeout"}}

\* What requests.get(endpoint) can meet.  json says whether the body decodes
\* as JSON and shape what it decodes to: "records" is an array of objects,
\* "null" the value null, "object" a non-empty object that is no array (an
\* error document, say).  data is the decoded array: one record per room of
\* the type, in an order of the server's choosing.
GetReplies(st, room_type) ==
    LET rooms == {r \in st : r.type = room_type}
    IN  {[exc |-> "none", status |-> 200, json |-> TRUE, shape |-> "records",
          data |-> [i \in 1..Len(q) |->
                       [name |-> q[i].name, participants |-> <<>>]]] :
            q \in Orderings(rooms)}
        \cup {[exc |-> "none", status |-> 200, json |-> TRUE, shape |-> s,
                data |-> <<>>] : s \in {"null", "object"}}
        \cup {[exc |-> "none", status |-> 200, json |-> FALSE,
                shape |-> "none", data |-> <<>>],
               [exc |-> "none", status |-> 500, json |-> FALSE,
                shape |-> "none", data |-> <<>>],
               [exc |-> "ConnectionError", status |-> 0, json |-> FALSE,
                shape |-> "none", data |-> <<>>],
               [exc |-> "Timeout", status |-> 0, json |-> FALSE,
                shape |-> "none", data |-> <<>>]}

-----------------------------------------------------------------------------
(* The decisions of the handlers, as the code takes them.  A handler       *)
(* returns True or False (a list or None for get_chat_rooms) and prints    *)
(* one message; kind names the message by the failure it reports.          *)

Unknown == <<"U", "n", "k", "n", "o", "w", "n">>

\* ChatRoom(room_type, room_data.get('name', 'Unknown'), ...,
\*          room_data.get('participants', []))
ChatRoomOf(room_type, room_data) ==
    [type |-> room_type,
     name |-> IF "name" \in DOMAIN room_data THEN room_data.name ELSE Unknown,
     participants |-> IF "participants" \in DOMAIN room_data
                      THEN room_data.participants ELSE <<>>]

\* A mutant of the conversion loop: the last record is not converted.
ChatRoomsDropLast(room_type, rooms_data) ==
    [i \in 1..(Len(rooms_data) - 1) |-> ChatRoomOf(room_type, rooms_data[i])]

\* The list get_chat_rooms returns for the decoded array rooms_data ([] for
\* an empty one).
ChatRooms(room_type, rooms_data) ==
    [i \in 1..Len(rooms_data) |-> ChatRoomOf(room_type, rooms_data[i])]

\* get_chat_rooms: which except clause, if any, ends the request.  Its except
\* clauses name the requests exceptions and json.JSONDecodeError only:
\* len(rooms_data) of null is a TypeError, room_data.get on the keys of an
\* object an AttributeError, and neither is caught ("Raised": the exception
\* leaves get_chat_rooms).
GetOutcome(reply) ==
    IF reply.exc = "ConnectionError" THEN "Unreachable"
    ELSE IF reply.exc # "none" THEN "RequestError"
    ELSE IF reply.status >= 400 THEN "HttpError"
    ELSE IF ~reply.json THEN "ProtocolError"
    ELSE IF reply.shape # "records" THEN "Raised"
    ELSE "Success"

\* A mutant of the category check: private rooms are not refused.
RefusesNoType(room_type) == FALSE

\* create_chat_room: if chat_room.type == "private": ... return False
RefusesType(room_type) == room_type = "private"

\* A mutant of the status mapping: any 2xx status counts as created.
CreateOutcomeAny2xx(reply) ==
    IF reply.exc = "ConnectionError" THEN "Unreachable"
    ELSE IF reply.exc # "none" THEN "RequestError"
    ELSE IF reply.status >= 200 /\ reply.status < 300 THEN "Success"
    ELSE IF reply.status = 400 THEN "InvalidInput"
    ELSE IF reply.status = 409 THEN "AlreadyExists"
    ELSE "UnexpectedResponse"

\* create_chat_room: the branch taken on the response, or the except clause.
CreateOutcome(reply) ==
    IF reply.exc = "ConnectionError" THEN "Unreachable"
    ELSE IF reply.exc # "none" THEN "RequestError"
    ELSE IF reply.status = 201 THEN "Success"
    ELSE IF reply.status = 400 THEN "InvalidInput"
    ELSE IF reply.status = 409 THEN "AlreadyExists"
    ELSE "UnexpectedResponse"

\* The file system as delete_chat_room finds it: whether the store file and
\* the tool exist, and os.access(file, R_OK) and os.access(file, W_OK).  A
\* missing store file is neither readable nor writable.
Envs ==
    {e \in [db : BOOLEAN, cmd : BOOLEAN, r : BOOLEAN, w : BOOLEAN] :
        ~e.db => ~e.r /\ ~e.w}

FsCheck(check, ok) == [check |-> check, ok |-> ok]

\* A mutant of the pre-flight checks: write access is not looked at.
PreflightReadOnly(env) ==
    IF ~env.db
    THEN [kind |-> "StoreNotFound", fs |-> <<FsCheck("exists_db", FALSE)>>]
    ELSE IF ~env.cmd
    THEN [kind |-> "ToolNotFound",
          fs |-> <<FsCheck("exists_db", TRUE), FsCheck("exists_cmd", FALSE)>>]
    ELSE [kind |-> IF ~env.r THEN "PermissionDenied" ELSE "ok",
          fs |-> <<FsCheck("exists_db", TRUE), FsCheck("exists_cmd", TRUE),
                   FsCheck("access_r", env.r)>>]

\* delete_chat_room's three checks and _check_database_permissions, in the
\* code's order; fs is the checks made, kind the failure ("ok": all passed).
Preflight(env) ==
    IF ~env.db
    THEN [kind |-> "StoreNotFound", fs |-> <<FsCheck("exists_db", FALSE)>>]
    ELSE IF ~env.cmd
    THEN [kind |-> "ToolNotFound",
          fs |-> <<FsCheck("exists_db", TRUE), FsCheck("exists_cmd", FALSE)>>]
    ELSE [kind |-> IF ~env.r \/ ~env.w THEN "PermissionDenied" ELSE "ok",
          fs |-> <<FsCheck("exists_db", TRUE), FsCheck("exists_cmd", TRUE),
                   FsCheck("access_r", env.r), FsCheck("access_w", env.w)>>]

\* How a run of the tool can go: as the statement says ("none"), a non-zero
\* exit that changes nothing ("exit", such as a locked database), the process
\* not starting ("launch", an OSError), or no output ("garbage").
DeleteFaults == {"none", "exit", "launch"}
CountFaults == {"none", "exit", "launch", "garbage"}

\* subprocess.run([sqlite_cmd, sqlite_path, sql], capture_output=True,
\* text=True, check=True) under fault, against table st.
RunTool(sql, st, fault) ==
    LET r == Sqlite(sql, st)
    IN  CASE fault = "launch" ->
               [sql |-> sql, fault |-> fault, exc |-> "OSError", rc |-> 0,
                out |-> <<>>, store |-> st]
          [] fault = "exit" ->
               [sql |-> sql, fault |-> fault, exc |-> "CalledProcessError",
                rc |-> 1, out |-> <<>>, store |-> st]
          [] fault = "garbage" ->
               [sql |-> sql, fault |-> fault,
                exc |-> IF r.rc = 0 THEN "none" ELSE "CalledProcessError",
                rc |-> r.rc, out |-> <<>>, store |-> r.store]
          [] OTHER ->
               [sql |-> sql, fault |-> fault,
                exc |-> IF r.rc = 0 THEN "none" ELSE "CalledProcessError",
                rc |-> r.rc, out |-> r.out, store |-> r.store]

\* What a run leaves in the invocation's record of its processes.
ProcOf(run) ==
    [sql |-> run.sql, fault |-> run.fault, exc |-> run.exc, rc |-> run.rc,
     out |-> run.out]

\* delete_chat_room after the deletion command: the except clause it ends in,
\* or "ok" when it goes on to the count query.
ExecOutcome(run) ==
    IF run.exc = "CalledProcessError" THEN "ToolExecutionFailed"
    ELSE IF run.exc # "none" THEN "UnexpectedError"
    ELSE "ok"

\* A mutant of the verification: the count does not decide.
VerifyOutcomeIgnoresCount(run) ==
    IF run.exc = "CalledProcessError" THEN "ToolExecutionFailed"
    ELSE IF run.exc # "none" THEN "UnexpectedError"
    ELSE IF ~ParseInt(run.out).ok THEN "UnexpectedError"
    ELSE "Success"

\* A mutant of the verification: the test on the count is inverted.
VerifyOutcomeInverted(run) ==
    IF run.exc = "CalledProcessError" THEN "ToolExecutionFailed"
    ELSE IF run.exc # "none" THEN "UnexpectedError"
    ELSE IF ~ParseInt(run.out).ok THEN "UnexpectedError"
    ELSE IF ParseInt(run.out).val # 0 THEN "Success"
    ELSE "DeletionUnverified"

\* A mutant of the verification: one remaining row still counts as deleted.
VerifyOutcomeAtMostOne(run) ==
    IF run.exc = "CalledProcessError" THEN "ToolExecutionFailed"
    ELSE IF run.exc # "none" THEN "UnexpectedError"
    ELSE IF ~ParseInt(run.out).ok THEN "UnexpectedError"
    ELSE IF ParseInt(run.out).val <= 1 THEN "Success"
    ELSE "DeletionUnverified"

\* delete_chat_room after the count query: room_count == 0 is success.
VerifyOutcome(run) ==
    IF run.exc = "CalledProcessError" THEN "ToolExecutionFailed"
    ELSE IF run.exc # "none" THEN "UnexpectedError"
    ELSE IF ~ParseInt(run.out).ok THEN "UnexpectedError"
    ELSE IF ParseInt(run.out).val = 0 THEN "Success"
    ELSE "DeletionUnverified"

\* main: the choices of the positional argument "action".
CliActions == {"get", "create", "delete"}

\* A mutant of main's branches: create is handed to delete_chat_room.
DispatchCreateToDelete(action) ==
    IF action = "get" THEN "get_chat_rooms" ELSE "delete_chat_room"

\* main: the method of the facade each branch on args.action calls.
Dispatch(action) ==
    CASE action = "get" -> "get_chat_rooms"
      [] action = "create" -> "create_chat_room"
      [] action = "delete" -> "delete_chat_room"

\* The actions on the command line that reach a method.
Dispatched(method) == {a \in CliActions : Dispatch(a) = method}

\* main: "if not room_name" on the optional positional argument, here the
\* sequence of the room names given: none, or one that may be the empty string.
NoRoomName(room_name) == room_name = <<>> \/ room_name = << <<>> >>

\* A mutant of main's test of what the operation returned: an empty list of
\* rooms counts as a failed list.
ReportedTruthy(action, ok, rooms) ==
    IF action = "get" THEN ok /\ rooms # <<>> ELSE ok

\* main's test of what the operation returned: "if rooms is not None" for
\* get_chat_rooms (ok: a list came back, rooms), "if success" for the others.
Reported(action, ok, rooms) == ok

\* main: sys.exit(0) in the branch of a reported success, sys.exit(1) in the
\* other; an exception that leaves main ends the interpreter with status 1.
ExitStatus(reported) == IF reported THEN 0 ELSE 1

\* The positional room_name arguments the model gives to "get", which does
\* not read them.
GetNameArgs == {<<>>, << <<"a">> >>}

-----------------------------------------------------------------------------
(* The regression driver (test.py): RASRegressionTest runs the tool as a   *)
(* child process, once per step, and counts the tests that pass and fail.  *)

\* The room the driver creates and deletes (generate_test_room_name).
TestRoomName == <<"a">>

\* room_name in result.stdout: needle occurs in hay.
Contains(hay, needle) ==
    \E i \in 0..(Len(hay) - Len(needle)) :
        \A j \in 1..Len(needle) : hay[i + j] = needle[j]

\* The steps of run_full_regression_test that run the tool, in order.
Steps ==
    <<"cleanup_first", "test1", "test2", "test3", "test4", "test5", "test6",
      "test7", "test8", "cleanup_final">>

\* The command line of each step: cleanup_test_room and test_delete_room
\* delete the test room, test_create_room creates it, test_list_rooms and
\* check_room_exists list the public rooms.
Command(step) ==
    IF step \in {"cleanup_first", "test6", "cleanup_final"}
    THEN [action |-> "delete", type |-> "public", name |-> <<TestRoomName>>]
    ELSE IF step = "test3"
    THEN [action |-> "create", type |-> "public", name |-> <<TestRoomName>>]
    ELSE IF step \in {"test1", "test2", "test4", "test5", "test7", "test8"}
    THEN [action |-> "get", type |-> "public", name |-> <<>>]
    ELSE [action |-> "none", type |-> "none", name |-> <<>>]

\* run_command's result when subprocess.run raised (TimeoutExpired): None.
None ==
    [none |-> TRUE, returncode |-> 1, success_line |-> FALSE, names |-> {}]

\* check_room_exists(room_name, should_exist) on the result of "get public".
CheckRoomExists(res, room_name, should_exist) ==
    IF res.none \/ res.returncode # 0 THEN FALSE
    ELSE LET room_found == \E n \in res.names : Contains(n, room_name)
         IN  should_exist <=> room_found

\* test_create_room, test_delete_room, test_list_rooms: the command ran, its
\* return code is 0 and its output has the line that reports the success.
TestCommand(res) == ~res.none /\ res.returncode = 0 /\ res.success_line

\* What the test function of a step returns.
TestResult(step, res) ==
    IF step \in {"test2", "test7"}
    THEN CheckRoomExists(res, TestRoomName, FALSE)
    ELSE IF step = "test4" THEN CheckRoomExists(res, TestRoomName, TRUE)
    ELSE TestCommand(res)

\* run_full_regression_test: the step after step; tests 4 to 8 are run only
\* if create_success, tests 7 and 8 only if delete_success.
NextStep(step, success) ==
    IF step = "cleanup_final" THEN "results"
    ELSE IF step \in {"test3", "test6"} /\ ~success THEN "cleanup_final"
    ELSE LET i == CHOOSE k \in 1..Len(Steps) : Steps[k] = step
         IN  Steps[i + 1]

\* print_test_results: return 0 if self.failed_tests == 0 else 1
PrintTestResults(failed_tests) == IF failed_tests = 0 THEN 0 ELSE 1

\* run_full_regression_test calls self.print_test_results() as a statement
\* and ends without a return: it returns None (<<>>), whatever the code was.
RunFullRegressionTest(code) == <<>>

\* sys.exit(exit_code): None is exit status 0, an integer is that status.
SysExit(exit_code) == IF exit_code = <<>> THEN 0 ELSE exit_code[1]

-----------------------------------------------------------------------------
(* The state.                                                              *)

VARIABLES
    store,   \* the rows of the chatRoom table
    before,  \* the table when the current invocation began
    pc,      \* "idle", "verify" (delete_chat_room between its two
             \* commands) or "done" (the handler has returned)
    op,      \* the current invocation: action, room type, room name
    result,  \* what it returned: ok, and the kind of its message
    listed,  \* the list get_chat_rooms returned
    http,    \* the HTTP requests the invocation issued, with their replies
    fs,      \* the file checks it made on the store file and the tool
    procs,   \* the runs of the store tool it made
    last,    \* the successful create or delete of the preceding invocation
             \* that the caller follows up on, if any
    argv,    \* the command line main parsed: action, room_type and the
             \* room_name arguments given (none or one)
    exit,    \* the exit status of the process: <<>> while it runs
    suite    \* the regression driver: its step (pc; "off" when the tool is
             \* run by hand), passed_tests, failed_tests, create_success,
             \* delete_success, and its own exit status (<<>> while it runs)

vars ==
    <<store, before, pc, op, result, listed, http, fs, procs, last, argv, exit,
      suite>>

NoOp == [action |-> "none", type |-> "none", name |-> <<>>]
NoResult == [ok |-> FALSE, kind |-> "None"]
NoLast == [action |-> "none", name |-> <<>>]
NoArgs == [action |-> "none", type |-> "none", name |-> <<>>]

Outcome(kind) == [ok |-> kind = "Success", kind |-> kind]

NoSuite ==
    [pc |-> "off", passed_tests |-> 0, failed_tests |-> 0,
     create_success |-> FALSE, delete_success |-> FALSE, status |-> <<>>]

\* Under the driver the tool is run with the command line of the step.
Scheduled(action, room_type, room_name) ==
    \/ suite.pc = "off"
    \/ Command(suite.pc) =
          [action |-> action, type |-> room_type, name |-> room_name]

\* main dispatches create and delete with a room name that is not empty; an
\* operation given the empty name is called by a program that imports the
\* facade, and no command line or exit status of this program goes with it.
Args(action, room_type, name) ==
    IF name = <<>> THEN NoArgs
    ELSE [action |-> action, type |-> room_type, name |-> <<name>>]

MainExit(action, name, res) ==
    IF name = <<>> THEN <<>>
    ELSE <<ExitStatus(Reported(action, res.ok, <<>>))>>

\* A follow-up lists the rooms or names the room followed up on.
Follows(action, name) ==
    last = NoLast \/ action = "get" \/ name = last.name

Init ==
    /\ store \in SubsetsUpTo(Rows, MaxRows)
    /\ before = store
    /\ pc = "idle"
    /\ op = NoOp
    /\ result = NoResult
    /\ listed = <<>>
    /\ http = <<>>
    /\ fs = <<>>
    /\ procs = <<>>
    /\ last = NoLast
    /\ argv = NoArgs
    /\ exit = <<>>
    /\ suite = NoSuite

\* get_chat_rooms(room_type)
GetChatRooms(room_type) ==
    /\ pc = "idle"
    /\ Follows("get", <<>>)
    /\ \E a \in Dispatched("get_chat_rooms"), room_name \in GetNameArgs :
          Scheduled(a, room_type, room_name)
    /\ pc' = "done"
    /\ op' = [action |-> "get", type |-> room_type, name |-> <<>>]
    /\ before' = store
    /\ \E reply \in GetReplies(store, room_type) :
          /\ http' = <<[method |-> "GET", type |-> room_type, name |-> <<>>,
                        exc |-> reply.exc, status |-> reply.status,
                        json |-> reply.json, shape |-> reply.shape]>>
          /\ result' = Outcome(GetOutcome(reply))
          /\ listed' = IF GetOutcome(reply) = "Success"
                       THEN ChatRooms(room_type, reply.data) ELSE <<>>
    /\ \E a \in Dispatched("get_chat_rooms"), room_name \in GetNameArgs :
          /\ Scheduled(a, room_type, room_name)
          /\ argv' = [action |-> a, type |-> room_type, name |-> room_name]
    /\ exit' = <<ExitStatus(Reported("get", result'.ok, listed'))>>
    /\ UNCHANGED <<store, fs, procs, last, suite>>

\* create_chat_room(ChatRoom(room_type, name))
CreateChatRoom(room_type, name) ==
    /\ pc = "idle"
    /\ Follows("create", name)
    /\ \E a \in Dispatched("create_chat_room") :
          Scheduled(a, room_type, <<name>>)
    /\ pc' = "done"
    /\ op' = [action |-> "create", type |-> room_type, name |-> name]
    /\ before' = store
    /\ IF RefusesType(room_type)
       THEN /\ result' = Outcome("UnsupportedOperation")
            /\ UNCHANGED <<store, http>>
       ELSE IF ~ValidateRoomName(name)
       THEN /\ result' = Outcome("InvalidInput")
            /\ UNCHANGED <<store, http>>
       ELSE \E reply \in PostReplies(store, room_type, name) :
               /\ http' = <<[method |-> "POST", type |-> room_type,
                             name |-> name, exc |-> reply.exc,
                             status |-> reply.status]>>
               /\ store' = reply.store
               /\ result' = Outcome(CreateOutcome(reply))
    /\ \E a \in Dispatched("create_chat_room") :
          argv' = Args(a, room_type, name)
    /\ exit' = MainExit("create", name, result')
    /\ UNCHANGED <<listed, fs, procs, last, suite>>

\* delete_chat_room(ChatRoom(room_type, name)) up to and including the
\* deletion command.
DeleteChatRoom(room_type, name) ==
    /\ pc = "idle"
    /\ Follows("delete", name)
    /\ \E a \in Dispatched("delete_chat_room") :
          Scheduled(a, room_type, <<name>>)
    /\ op' = [action |-> "delete", type |-> room_type, name |-> name]
    /\ before' = store
    /\ IF ~ValidateRoomName(name)
       THEN /\ result' = Outcome("InvalidInput")
            /\ pc' = "done"
            /\ UNCHANGED <<store, fs, procs>>
       ELSE \E env \in Envs :
               /\ fs' = Preflight(env).fs
               /\ IF Preflight(env).kind # "ok"
                  THEN /\ result' = Outcome(Preflight(env).kind)
                       /\ pc' = "done"
                       /\ UNCHANGED <<store, procs>>
                  ELSE \E fault \in DeleteFaults :
                          LET run == RunTool(DeleteSql(name), store, fault)
                          IN  /\ procs' = <<ProcOf(run)>>
                              /\ store' = run.store
                              /\ IF ExecOutcome(run) # "ok"
                                 THEN /\ result' = Outcome(ExecOutcome(run))
                                      /\ pc' = "done"
                                 ELSE /\ result' = NoResult
                                      /\ pc' = "verify"
    /\ \E a \in Dispatched("delete_chat_room") :
          argv' = Args(a, room_type, name)
    /\ exit' = IF pc' = "done" THEN MainExit("delete", name, result') ELSE <<>>
    /\ UNCHANGED <<listed, http, last, suite>>

\* delete_chat_room from the count query to its return.
DeleteVerify ==
    /\ pc = "verify"
    /\ pc' = "done"
    /\ \E fault \in CountFaults :
          LET run == RunTool(CountSql(op.name), store, fault)
          IN  /\ procs' = Append(procs, ProcOf(run))
              /\ store' = run.store
              /\ result' = Outcome(VerifyOutcome(run))
    /\ exit' = MainExit("delete", op.name, result')
    /\ UNCHANGED <<before, op, listed, http, fs, last, argv, suite>>

\* main with action create or delete and no room name, or the empty one: it
\* prints the usage and exits before it builds a ChatRoom.
MainNoName(action, room_type) ==
    /\ pc = "idle"
    /\ suite.pc = "off"
    /\ Follows(action, <<>>)
    /\ pc' = "done"
    /\ \E room_name \in {<<>>, << <<>> >>} :
          /\ NoRoomName(room_name)
          /\ argv' = [action |-> action, type |-> room_type,
                      name |-> room_name]
    /\ exit' = <<1>>
    /\ op' = NoOp
    /\ result' = NoResult
    /\ before' = store
    /\ UNCHANGED <<store, listed, http, fs, procs, last, suite>>

\* The process exits.  After a successful create or delete the caller either
\* follows it up (test.py: check_room_exists, cleanup_test_room) or turns to
\* other work.
Return ==
    /\ pc = "done"
    /\ suite.pc = "off"
    /\ pc' = "idle"
    /\ last' \in {NoLast} \cup
                  (IF op.action \in {"create", "delete"} /\ result.ok
                   THEN {[action |-> op.action, name |-> op.name]} ELSE {})
    /\ op' = NoOp
    /\ result' = NoResult
    /\ listed' = <<>>
    /\ http' = <<>>
    /\ fs' = <<>>
    /\ procs' = <<>>
    /\ argv' = NoArgs
    /\ exit' = <<>>
    /\ before' = store
    /\ UNCHANGED <<store, suite>>

\* Another actor (the chat server for its clients, an administrator) inserts
\* or removes a room of the name being deleted, between the deletion command
\* and the count query.  Rows of other names are not read by the count query,
\* and between invocations every table is already an initial state.
ExtWrite ==
    /\ pc = "verify"
    /\ \E t \in Category :
          LET row == [name |-> op.name, type |-> t]
          IN  \/ /\ row \notin store
                 /\ Cardinality(store) < MaxRows
                 /\ store' = store \cup {row}
              \/ /\ row \in store
                 /\ store' = store \ {row}
    /\ UNCHANGED <<before, pc, op, result, listed, http, fs, procs, last,
                   argv, exit, suite>>

Next ==
    \/ \E t \in Category : GetChatRooms(t)
    \/ \E t \in Category, n \in Names : CreateChatRoom(t, n)
    \/ \E t \in Category, n \in Names : DeleteChatRoom(t, n)
    \/ DeleteVerify
    \/ \E a \in {"create", "delete"}, t \in Category : MainNoName(a, t)
    \/ Return

\* One actor: the tool's invocations, one after another.
Spec == Init /\ [][Next]_vars

NextExt == Next \/ ExtWrite

\* The same with other writers to the store.
SpecExt == Init /\ [][NextExt]_vars

-----------------------------------------------------------------------------
(* The regression driver's run.                                            *)

\* run_command: the finished child process as the driver sees it, or None
\* when it did not finish within the timeout.
RunCommand(timeout) ==
    IF timeout THEN None
    ELSE [none |-> FALSE, returncode |-> exit[1], success_line |-> result.ok,
          names |-> {listed[i].name : i \in 1..Len(listed)}]

\* run_test(test_name, test_func): count the result of the step's test.
\* cleanup_test_room is no test and counts nothing.
RunTest(step, success) ==
    IF step \in {"cleanup_first", "cleanup_final"}
    THEN [suite EXCEPT !.pc = NextStep(step, success)]
    ELSE [suite EXCEPT
            !.pc = NextStep(step, success),
            !.passed_tests = IF success THEN @ + 1 ELSE @,
            !.failed_tests = IF success THEN @ ELSE @ + 1,
            !.create_success = IF step = "test3" THEN success ELSE @,
            !.delete_success = IF step = "test6" THEN success ELSE @]

DriverInit ==
    /\ store \in SubsetsUpTo(Rows, MaxRows)
    /\ before = store
    /\ pc = "idle"
    /\ op = NoOp
    /\ result = NoResult
    /\ listed = <<>>
    /\ http = <<>>
    /\ fs = <<>>
    /\ procs = <<>>
    /\ last = NoLast
    /\ argv = NoArgs
    /\ exit = <<>>
    /\ suite = [NoSuite EXCEPT !.pc = "cleanup_first"]

\* The child process of a step has ended, or the timeout has: the driver takes
\* the result of the step and goes on.
StepDone ==
    /\ suite.pc \notin {"off", "results", "exited"}
    /\ pc = "done"
    /\ \E timeout \in BOOLEAN :
          suite' = RunTest(suite.pc, TestResult(suite.pc, RunCommand(timeout)))
    /\ pc' = "idle"
    /\ last' = NoLast
    /\ op' = NoOp
    /\ result' = NoResult
    /\ listed' = <<>>
    /\ http' = <<>>
    /\ fs' = <<>>
    /\ procs' = <<>>
    /\ argv' = NoArgs
    /\ exit' = <<>>
    /\ before' = store
    /\ UNCHANGED store

\* print_test_results, the return of run_full_regression_test, and main's
\* sys.exit(exit_code).
DriverExit ==
    /\ suite.pc = "results"
    /\ LET exit_code ==
              RunFullRegressionTest(PrintTestResults(suite.failed_tests))
       IN  suite' = [suite EXCEPT !.pc = "exited",
                                  !.status = <<SysExit(exit_code)>>]
    /\ UNCHANGED <<store, before, pc, op, result, listed, http, fs, procs,
                   last, argv, exit>>

DriverNext ==
    \/ \E t \in Category : GetChatRooms(t)
    \/ \E t \in Category, n \in Names : CreateChatRoom(t, n)
    \/ \E t \in Category, n \in Names : DeleteChatRoom(t, n)
    \/ DeleteVerify
    \/ StepDone
    \/ DriverExit

\* The regression driver running the tool, step by step.
SpecDriver == DriverInit /\ [][DriverNext]_vars

-----------------------------------------------------------------------------
(* The claims.                                                             *)

\* A valid name: not empty and not all whitespace.
NonBlank(name) == \E i \in 1..Len(name) : name[i] # " "

Returned(action) == pc = "done" /\ op.action = action

NoIO == http = <<>> /\ fs = <<>> /\ procs = <<>>

\* The pre-flight checks of the current delete all passed.
PreflightPassed ==
    Len(fs) = 4 /\ \A i \in 1..4 : fs[i].ok

NamedRows(st, name) == {r \in st : r.name = name}

\* C1: create of a private room with a valid name always fails with
\* UnsupportedOperation; no HTTP request is issued, the store tool is not
\* invoked, and the store is left as it was.
C1_PrivateCreateRefused ==
    (Returned("create") /\ op.type = "private" /\ NonBlank(op.name))
        => /\ ~result.ok
           /\ result.kind = "UnsupportedOperation"
           /\ http = <<>>
           /\ procs = <<>>
           /\ store = before

C1_Witness ==
    /\ Returned("create")
    /\ op.type = "private"
    /\ NonBlank(op.name)
    /\ result.kind = "UnsupportedOperation"

\* C2 as stated: create and delete of an empty or all-whitespace name fail
\* with InvalidInput for both categories, before any I/O.
C2_BlankNameInvalidInput ==
    ((Returned("create") \/ Returned("delete")) /\ ~NonBlank(op.name))
        => /\ ~result.ok
           /\ result.kind = "InvalidInput"
           /\ NoIO

\* C2 amended: create and delete of an empty or all-whitespace name fail
\* before any I/O; the failure is InvalidInput, except for create of a private
\* room, which the category check refuses first with UnsupportedOperation.
C2_BlankNameRejected ==
    ((Returned("create") \/ Returned("delete")) /\ ~NonBlank(op.name))
        => /\ ~result.ok
           /\ result.kind = IF op.action = "create" /\ op.type = "private"
                            THEN "UnsupportedOperation" ELSE "InvalidInput"
           /\ NoIO
           /\ store = before

C2_Witness ==
    /\ Returned("delete")
    /\ op.name = <<" ">>
    /\ result.kind = "InvalidInput"
    /\ NoIO

\* C3: once validation and the pre-flight checks have passed, delete reports
\* success exactly when the deletion command exited with status zero and the
\* count query returned 0; a count above 0 is DeletionUnverified; a non-zero
\* exit of the deletion command is ToolExecutionFailed, and then no count
\* query is run.
C3_DeleteSuccessCriterion ==
    (Returned("delete") /\ NonBlank(op.name) /\ PreflightPassed)
        => LET ran(i) == Len(procs) >= i /\ procs[i].exc = "none"
                         /\ procs[i].rc = 0
               count == ParseInt(procs[2].out)
           IN  /\ Len(procs) >= 1
               /\ result.ok <=> (ran(1) /\ ran(2) /\ count.ok /\ count.val = 0)
               /\ (ran(1) /\ ran(2) /\ count.ok /\ count.val > 0)
                     => (~result.ok /\ result.kind = "DeletionUnverified")
               /\ (procs[1].exc = "CalledProcessError")
                     => /\ procs[1].rc # 0
                        /\ result.kind = "ToolExecutionFailed"
                        /\ ~result.ok
                        /\ Len(procs) = 1

C3_Witness ==
    /\ Returned("delete")
    /\ PreflightPassed
    /\ Len(procs) = 2
    /\ ParseInt(procs[2].out).val > 0
    /\ result.kind = "DeletionUnverified"

\* C4: for a valid name delete checks, in this order, that the store file
\* exists, that the tool exists, and read and write access to the store file;
\* the first check that fails decides the failure (StoreNotFound,
\* ToolNotFound, PermissionDenied), and after a failed check the tool is not
\* invoked and the store is unchanged.
C4_PreflightOrder ==
    (op.action = "delete" /\ NonBlank(op.name))
        => /\ Len(fs) >= 1 /\ fs[1].check = "exists_db"
           /\ ~fs[1].ok => (Len(fs) = 1 /\ result.kind = "StoreNotFound")
           /\ fs[1].ok => (Len(fs) >= 2 /\ fs[2].check = "exists_cmd")
           /\ (fs[1].ok /\ ~fs[2].ok)
                 => (Len(fs) = 2 /\ result.kind = "ToolNotFound")
           /\ (fs[1].ok /\ fs[2].ok)
                 => /\ Len(fs) = 4
                    /\ fs[3].check = "access_r" /\ fs[4].check = "access_w"
                    /\ (~fs[3].ok \/ ~fs[4].ok)
                          => result.kind = "PermissionDenied"
           /\ (\E i \in 1..Len(fs) : ~fs[i].ok)
                 => (pc = "done" /\ ~result.ok /\ procs = <<>> /\ store = before)
           /\ procs # <<>> => PreflightPassed

C4_Witness ==
    /\ Returned("delete")
    /\ Len(fs) = 4
    /\ fs[3].ok /\ ~fs[4].ok
    /\ result.kind = "PermissionDenied"
    /\ procs = <<>>

\* C5: create of a public room with a valid name issues one request and maps
\* its reply to one outcome: 201 is success, 400 InvalidInput, 409 (the room
\* exists already) AlreadyExists, any other status UnexpectedResponse, an
\* unreachable server Unreachable; success is reported for 201 only.
C5_CreateStatusMapping ==
    (Returned("create") /\ op.type = "public" /\ NonBlank(op.name))
        => /\ Len(http) = 1
           /\ LET h == http[1]
                  replied(c) == h.exc = "none" /\ h.status = c
              IN  /\ h.method = "POST" /\ h.type = "public" /\ h.name = op.name
                  /\ result.ok <=> replied(201)
                  /\ replied(201) => result.kind = "Success"
                  /\ replied(400) => result.kind = "InvalidInput"
                  /\ replied(409) => result.kind = "AlreadyExists"
                  /\ replied(409)
                        => [name |-> op.name, type |-> "public"] \in before
                  /\ (h.exc = "none" /\ h.status \notin {201, 400, 409})
                        => result.kind = "UnexpectedResponse"
                  /\ h.exc = "ConnectionError" => result.kind = "Unreachable"

C5_Witness ==
    /\ Returned("create")
    /\ op.type = "public"
    /\ [name |-> op.name, type |-> "public"] \in before
    /\ result.kind = "AlreadyExists"

ListedNames == {listed[i].name : i \in 1..Len(listed)}

\* A list of public rooms that follows a successful create of a public room.
ListAfterCreate ==
    /\ Returned("get")
    /\ op.type = "public"
    /\ last.action = "create"

\* C6 as stated: after create(name, public) reported success, the next
\* list(public) succeeds and its result contains a room of exactly that name.
C6_ListSucceedsWithCreated ==
    ListAfterCreate => (result.ok /\ last.name \in ListedNames)

\* C6 amended: after create(name, public) reported success, the next
\* list(public), when it succeeds, contains a room of exactly that name (it
\* fails when the server is unreachable, answers an error status or sends a
\* body that is not JSON).
C6_ListContainsCreated ==
    (ListAfterCreate /\ result.ok) => last.name \in ListedNames

C6_Witness ==
    /\ ListAfterCreate
    /\ result.ok
    /\ last.name \in ListedNames
    /\ Len(listed) = 2

\* C7: after delete(name, category) reported success, for either category and
\* with no other writer to the store, no row of that name is in the store (a
\* direct count is 0) and the next list, of either category, has no room of
\* that name.
C7_DeletedStaysGone ==
    /\ (Returned("delete") /\ result.ok) => NamedRows(store, op.name) = {}
    /\ (pc = "idle" /\ last.action = "delete")
          => /\ NamedRows(store, last.name) = {}
             /\ ParseInt(Sqlite(CountSql(last.name), store).out).val = 0
    /\ (Returned("get") /\ last.action = "delete" /\ result.ok)
          => last.name \notin ListedNames

C7_Witness ==
    /\ Returned("get")
    /\ last.action = "delete"
    /\ result.ok
    /\ listed # <<>>
    /\ last.name \notin ListedNames

\* C8: delete of a name that has no row in the store (a previous successful
\* delete removed it), with the pre-flight checks passing and the tool running
\* normally, does not yield DeletionUnverified and leaves the store unchanged.
C8_DeleteAbsentName ==
    (/\ Returned("delete")
     /\ NonBlank(op.name)
     /\ NamedRows(before, op.name) = {}
     /\ PreflightPassed
     /\ \A i \in 1..Len(procs) : procs[i].fault = "none")
        => /\ result.kind # "DeletionUnverified"
           /\ store = before

C8_Witness ==
    /\ Returned("delete")
    /\ last = [action |-> "delete", name |-> op.name]
    /\ NamedRows(before, op.name) = {}
    /\ PreflightPassed
    /\ Len(procs) = 2
    /\ \A i \in 1..2 : procs[i].fault = "none"
    /\ result.ok
    /\ store = before
    /\ store # {}

\* C9: for every name, with or without single quotes, the deletion command
\* (when the tool runs normally) exits with status zero and removes exactly
\* the rows whose name equals the given name, whatever their category and
\* whatever the category asked for; the count query counts exactly the rows
\* of that name and changes nothing.
C9_DeleteExactName ==
    [][ /\ (/\ pc = "idle"
            /\ op'.action = "delete"
            /\ procs' # <<>>
            /\ procs'[1].fault = "none")
              => /\ procs'[1].rc = 0
                 /\ store' = store \ NamedRows(store, op'.name)
        /\ (/\ pc = "verify"
            /\ pc' = "done"
            /\ procs'[2].fault = "none")
              => /\ procs'[2].rc = 0
                 /\ ParseInt(procs'[2].out) =
                       [ok |-> TRUE,
                        val |-> Cardinality(NamedRows(store, op.name))]
                 /\ store' = store ]_vars

C9_Witness ==
    /\ pc = "verify"
    /\ \E i \in 1..Len(op.name) : op.name[i] = "'"
    /\ procs[1].fault = "none"
    /\ \E r \in before : r.name = op.name /\ r.type # op.type
    /\ \E r \in before : r.name # op.name
    /\ store = before \ NamedRows(before, op.name)
    /\ store # {}

\* C10: create and delete are all-or-nothing: whenever delete reports failure
\* the store holds the rows it held before the invocation, and whenever
\* create reports failure no room was added.
C10_AllOrNothing ==
    ((Returned("create") \/ Returned("delete")) /\ ~result.ok)
        => store = before

\* C11: the facade never lets a backend exception reach its caller: whatever
\* the backend does (any status, a connection failure, a body that is not
\* JSON, a JSON body that is not an array of room records, a failure of the
\* store tool, count output that is no number), list, create and delete
\* return their result and never end by raising; a malformed payload on list
\* gives a failure result.
C11_NoExceptionLeaks ==
    pc = "done"
        => /\ result.kind # "Raised"
           /\ (/\ op.action = "get"
               /\ http[1].exc = "none"
               /\ http[1].status = 200
               /\ (~http[1].json \/ http[1].shape # "records"))
                 => (~result.ok /\ result.kind = "ProtocolError")

\* C12: for every action, category and name given on the command line, the
\* process exits with status zero exactly when the dispatched operation
\* reported success, and with a non-zero status otherwise; a list that returns
\* an empty sequence is a success (status zero), a failed list is not; create
\* and delete given no name exit non-zero and the operation is not invoked.
C12_ExitStatusReflectsResult ==
    (pc = "done" /\ argv # NoArgs)
        => /\ Len(exit) = 1
           /\ op # NoOp
                 => /\ op.action = argv.action /\ op.type = argv.type
                    /\ exit[1] = 0 <=> result.ok
           /\ (argv.action = "get" /\ result.kind = "Success"
                                   /\ listed = <<>>) => exit[1] = 0
           /\ (argv.action = "get" /\ result.kind # "Success")
                 => exit[1] # 0
           /\ (argv.action \in {"create", "delete"} /\ NoRoomName(argv.name))
                 => /\ exit[1] # 0
                    /\ op = NoOp
                    /\ NoIO
                    /\ store = before
           /\ (argv.action = "get" \/ ~NoRoomName(argv.name)) => op # NoOp

C12_Witness ==
    /\ pc = "done"
    /\ argv = [action |-> "get", type |-> "private", name |-> <<>>]
    /\ result.ok
    /\ listed = <<>>
    /\ exit = <<0>>

\* C12, the other case: delete given no name exits non-zero without invoking
\* the operation.
C12_WitnessNoName ==
    /\ pc = "done"
    /\ argv = [action |-> "delete", type |-> "public", name |-> <<>>]
    /\ op = NoOp
    /\ exit = <<1>>
    /\ store # {}

\* C13: dispatch by action, for both categories: an invocation of list or of
\* create does not invoke the store tool and makes no check of, or change to,
\* the store file; an invocation of delete issues no HTTP request; every
\* invocation touches at most one of the two backends.
C13_OneBackendPerAction ==
    /\ (argv.action \in {"get", "create"} \/ op.action \in {"get", "create"})
          => (fs = <<>> /\ procs = <<>>)
    /\ (argv.action = "delete" \/ op.action = "delete") => http = <<>>
    /\ http = <<>> \/ (fs = <<>> /\ procs = <<>>)
    /\ Returned("get") => store = before
    /\ (Returned("create") /\ http = <<>>) => store = before

C13_Witness ==
    /\ pc = "done"
    /\ argv.action = "delete"
    /\ argv.type = "private"
    /\ Len(fs) = 4
    /\ Len(procs) = 2
    /\ http = <<>>
    /\ store # before

\* C14: with another writer to the store acting between the steps of delete,
\* delete reports success only if no row of the given name was in the store
\* when its count query ran: when a room of that name was inserted again
\* after the deletion command and before the count query, delete reports
\* failure, DeletionUnverified when the count query ran normally, and never
\* success.
C14_VerifyDecides ==
    [][ (pc = "verify" /\ pc' = "done")
           => /\ result'.ok => NamedRows(store, op.name) = {}
              /\ NamedRows(store, op.name) # {}
                    => /\ ~result'.ok
                       /\ exit' # <<0>>
                       /\ procs'[2].fault = "none"
                             => result'.kind = "DeletionUnverified" ]_vars

\* The room was there, the deletion command removed it, and it is there again
\* when the count query runs.
C14_Witness ==
    /\ Returned("delete")
    /\ NamedRows(before, op.name) # {}
    /\ Len(procs) = 2
    /\ procs[1].fault = "none" /\ procs[1].rc = 0
    /\ procs[2].fault = "none"
    /\ NamedRows(store, op.name) # {}
    /\ result.kind = "DeletionUnverified"
    /\ exit = <<1>>

\* C15: the exit status of the regression driver reflects its results: after
\* a full run it is 0 if no test failed and non-zero if at least one test
\* failed.
C15_DriverExitReflectsResults ==
    suite.pc = "exited"
        => /\ suite.failed_tests = 0 => suite.status = <<0>>
           /\ suite.failed_tests > 0 => suite.status # <<0>>

=============================================================================
